---- MODULE Spec2Model ----
(***************************************************************************)
(* Model of the reference VMM lifecycle (src/src/vmm/src/lib.rs) driven by *)
(* main (src/src/main.rs): capability gate, guest memory layout, PIO       *)
(* device registration, kernel configuration, vCPU creation, device        *)
(* activation, vCPU start, the event loop and the vCPU threads that use    *)
(* the serial console; and of the configuration space of the virtio block  *)
(* device (src/src/devices/src/virtio/block/mod.rs).                       *)
(*                                                                         *)
(* Spec is the program as main runs it.  ApiSpec is a client that calls    *)
(* the public operations of VMM in any order.  DeviceSpec and UnwindSpec   *)
(* start from a VMM with any bus and any list of dormant devices: the      *)
(* registration in src/ leaves the list empty, so the loop of run over it  *)
(* is exercised from there.  BlockSpec applies build_config_space, and     *)
(* ConvertSpec the conversion of the parsed configuration record           *)
(* (src/src/api-cpp/src/lib.rs).                                           *)
(*                                                                         *)
(* 64-bit quantities do not fit TLC's integers, so a u64 is a triple of    *)
(* limbs <<l0, l1, l2>> = l0 + l1 * 2^20 + l2 * 2^40 with l0, l1 < 2^20    *)
(* and l2 < 2^24; a u32 is a pair <<l0, l1>> = l0 + l1 * 2^20 with         *)
(* l0 < 2^20 and l1 < 2^12.                                                *)
(***************************************************************************)
EXTENDS Integers, Sequences, FiniteSets, TLC

\* ------------------------------------------------------------------
\* Bounds of the model
\* ------------------------------------------------------------------
MaxVcpus == 2
MaxPending == 2
\* the public operations a client calls on one VMM
MaxCalls == 3

\* ------------------------------------------------------------------
\* Fixed-width arithmetic
\* ------------------------------------------------------------------
\* 2^20: one limb; 2^24: the top limb of a u64; 2^12: the top limb of a u32
LIMB == 2^20
TOP_LIMB == 2^24
U32_TOP == 2^12

U64Zero == <<0, 0, 0>>

U64Lt(a, b) ==
    \/ a[3] < b[3]
    \/ a[3] = b[3] /\ a[2] < b[2]
    \/ a[3] = b[3] /\ a[2] = b[2] /\ a[1] < b[1]

U64Le(a, b) == a = b \/ U64Lt(a, b)

\* wrapping subtraction on 64 bits
U64Sub(a, b) ==
    LET d0 == a[1] - b[1]
        br0 == IF d0 < 0 THEN 1 ELSE 0
        d1 == a[2] - b[2] - br0
        br1 == IF d1 < 0 THEN 1 ELSE 0
        d2 == a[3] - b[3] - br1
    IN  <<d0 + br0 * LIMB, d1 + br1 * LIMB, (d2 + TOP_LIMB) % TOP_LIMB>>

\* wrapping addition on 64 bits
U64Add(a, b) ==
    LET s0 == a[1] + b[1]
        c0 == IF s0 >= LIMB THEN 1 ELSE 0
        s1 == a[2] + b[2] + c0
        c1 == IF s1 >= LIMB THEN 1 ELSE 0
        s2 == a[3] + b[3] + c1
    IN  <<s0 - c0 * LIMB, s1 - c1 * LIMB, s2 % TOP_LIMB>>

\* usize::checked_sub: None is <<>>, Some(x) is <<x>>
checked_sub(a, b) == IF U64Lt(a, b) THEN <<>> ELSE <<U64Sub(a, b)>>

\* `x as u64` for a u32 x: zero extension
AsU64(x) == <<x[1], x[2], 0>>

\* `x << 20` on a u64: bits shifted past bit 63 are lost
U64Shl20(x) == <<0, x[1], (x[2] + (x[3] % 16) * LIMB) % TOP_LIMB>>

\* `x as usize`; the crate is compiled for x86_64 only, usize is 64 bits wide
AsUsize(x) == x

\* ------------------------------------------------------------------
\* Program constants
\* ------------------------------------------------------------------
KVM_API_VERSION == 12
\* 1 << 32
FIRST_ADDR_PAST_32BITS == <<0, 4096, 0>>
\* 768 << 20
MEM_32BIT_GAP_SIZE == <<0, 768, 0>>
MMIO_MEM_START == U64Sub(FIRST_ADDR_PAST_32BITS, MEM_32BIT_GAP_SIZE)
\* 0x7000
ZEROPG_START == 28672
CMDLINE_START == 131072
\* virtio block: a sector is 2^9 bytes
SECTOR_SHIFT == 9

\* ------------------------------------------------------------------
\* Results and errors
\* ------------------------------------------------------------------
Ok == [kind |-> "Ok", cap |-> "none", ver |-> 0]
Err(k) == [kind |-> k, cap |-> "none", ver |-> 0]
KvmApiVersion(v) == [kind |-> "KvmApiVersion", cap |-> "none", ver |-> v]
KvmCap(c) == [kind |-> "KvmCap", cap |-> c, ver |-> 0]

\* ------------------------------------------------------------------
\* Capability gate
\* ------------------------------------------------------------------
capabilities == <<"Irqchip", "Ioeventfd", "Irqfd", "UserMemory">>

\* Iterator::find: the first element for which the predicate holds
RECURSIVE FindUnsupported(_, _, _)
FindUnsupported(caps, supported, i) ==
    IF i > Len(caps) THEN <<>>
    ELSE IF caps[i] \notin supported THEN <<caps[i]>>
    ELSE FindUnsupported(caps, supported, i + 1)

\* a plausible slip: the scan keeps the last unsupported capability
RECURSIVE FindLastUnsupported(_, _, _)
FindLastUnsupported(caps, supported, i) ==
    IF i < 1 THEN <<>>
    ELSE IF caps[i] \notin supported THEN <<caps[i]>>
    ELSE FindLastUnsupported(caps, supported, i - 1)

check_kvm_capabilities_last(supported) ==
    LET c == FindLastUnsupported(capabilities, supported, Len(capabilities))
    IN  IF c # <<>> THEN KvmCap(c[1]) ELSE Ok

check_kvm_capabilities(supported) ==
    LET c == FindUnsupported(capabilities, supported, 1)
    IN  IF c # <<>> THEN KvmCap(c[1]) ELSE Ok

\* ------------------------------------------------------------------
\* Guest memory layout
\* ------------------------------------------------------------------
Region(b, l) == [base |-> b, len |-> l]

\* a plausible slip: the shift is done on the u32 before widening
mem_size_narrow(mem_size_mib) ==
    AsUsize(<<0, mem_size_mib[1] % U32_TOP, 0>>)

mem_size(mem_size_mib) == AsUsize(U64Shl20(AsU64(mem_size_mib)))

\* a plausible slip: the operands of checked_sub are exchanged
mem_regions_swapped(size) ==
    LET r == checked_sub(AsUsize(MMIO_MEM_START), size)
    IN  IF r = <<>> \/ r = <<U64Zero>>
        THEN <<Region(U64Zero, size)>>
        ELSE <<Region(U64Zero, AsUsize(MMIO_MEM_START)),
               Region(FIRST_ADDR_PAST_32BITS, r[1])>>

\* a plausible slip: the upper region starts where the gap starts
mem_regions_in_gap(size) ==
    LET r == checked_sub(size, AsUsize(MMIO_MEM_START))
    IN  IF r = <<>> \/ r = <<U64Zero>>
        THEN <<Region(U64Zero, size)>>
        ELSE <<Region(U64Zero, AsUsize(MMIO_MEM_START)),
               Region(MMIO_MEM_START, r[1])>>

mem_regions_of(size) ==
    LET r == checked_sub(size, AsUsize(MMIO_MEM_START))
    IN  IF r = <<>> \/ r = <<U64Zero>>
        THEN <<Region(U64Zero, size)>>
        ELSE <<Region(U64Zero, AsUsize(MMIO_MEM_START)),
               Region(FIRST_ADDR_PAST_32BITS, r[1])>>

create_guest_memory(mem_size_mib) == mem_regions_of(mem_size(mem_size_mib))

\* ------------------------------------------------------------------
\* Inputs
\* ------------------------------------------------------------------
\* host-reported KVM API versions tried
ApiVersions == {11, 12, 13}
Caps == {"Irqchip", "Ioeventfd", "Irqfd", "UserMemory"}
\* requested sizes in MiB, as u32 pairs: 0, 1, 3072, 3073, 3328, 3329, 4096,
\* 2^20 and 2^32 - 1
MemSizes == {<<0, 0>>, <<1, 0>>, <<3072, 0>>, <<3073, 0>>, <<3328, 0>>,
             <<3329, 0>>, <<4096, 0>>, <<0, 1>>, <<LIMB - 1, U32_TOP - 1>>}

\* outcomes of EventManager::run tried: a batch was dispatched, the poll of the
\* event-notification primitive failed, or another event-manager error
RunErrors == {"Epoll", "Other"}
\* kernel entry points the loader may report
KernelEntries == {1048576, 2097152}
\* lengths of the kernel command line tried
CmdlineLens == {0, 17}

\* ------------------------------------------------------------------
\* Device bus
\* ------------------------------------------------------------------
RangeOverlap(b1, s1, b2, s2) == b1 < b2 + s2 /\ b2 < b1 + s1

\* IoManager::register_pio_resources: <<>> is Err, <<bus>> is Ok
register_pio_resources(bus, dev, base, size) ==
    IF \E e \in bus : RangeOverlap(e.base, e.size, base, size)
    THEN <<>>
    ELSE <<bus \cup {[dev |-> dev, base |-> base, size |-> size]}>>


\* ------------------------------------------------------------------
\* State
\* ------------------------------------------------------------------
VARIABLES
    pc,                \* position of the main thread
    result,            \* the Result of VMM::try_from, or of the step that failed
    panic,             \* the panic message, "none" if the thread has not panicked
    stderr,            \* the last line written to stderr
    kvm_api_ver,       \* the version Kvm::get_api_version reports
    host_caps,         \* the capabilities Kvm::check_extension reports
    config,            \* the VMMConfig
    caller,            \* who calls the VMM: "try_from" (main) or "client"
    calls,             \* the public operations the client called, in order
    block,             \* the input and the result of block::build_config_space
    vmm_config,        \* the ffi::VMMConfig the command line was parsed into
    converted_config,  \* the vmm::VMMConfig made of it: <<>> if none yet
    kvm,               \* the Kvm handle is open
    mem_regions,       \* the regions create_guest_memory computed
    guest_memory,      \* VMM.guest_memory exists
    vm_created,        \* VMM.vm exists
    vcpus,             \* the vCPUs of VMM.vm
    vcpus_running,     \* KvmVm::run has started the vCPUs
    vcpu_pc,           \* position of each vCPU thread, once started
    device_mgr,        \* VMM.device_mgr: <<>> is None, <<bus>> is Some
    shared_device_mgr, \* the Arc<IoManager> the vCPUs share: <<>> if none
    serial,            \* the serial console object and who is inside it
    event_mgr,         \* VMM.event_mgr
    dormant_devices,   \* VMM.dormant_devices
    irq_wired,         \* devices whose interrupt notification is set up
    activation_log,    \* every pass of a device through the loop of run
    kernel_load,       \* the KernelLoaderResult: <<>> before the kernel is loaded
    bootparams,        \* the boot_params being built: <<>> if none
    guest_writes,      \* what configure_kernel wrote to guest memory, in order
    vcpu_kernel_load,  \* the kernel_load argument of create_vcpus
    vcpu_index,        \* the loop index of create_vcpus
    pending,           \* events ready and not yet dispatched
    dispatched,        \* events dispatched by the last event_mgr.run()
    run_result,        \* what the last event_mgr.run() returned
    stages             \* the steps completed so far, in order

vars == <<pc, result, panic, stderr, kvm_api_ver, host_caps, config, caller,
          calls, block, vmm_config, converted_config, kvm, mem_regions,
          guest_memory, vm_created, vcpus,
          vcpus_running, vcpu_pc, device_mgr, shared_device_mgr, serial,
          event_mgr, dormant_devices, irq_wired, activation_log, kernel_load,
          bootparams, guest_writes, vcpu_kernel_load, vcpu_index, pending,
          dispatched, run_result, stages>>

host == <<kvm_api_ver, host_caps, config, caller, calls, block, vmm_config,
          converted_config>>
kvm_fields == <<kvm, mem_regions, guest_memory, vm_created>>
vcpu_fields == <<vcpus, vcpus_running, vcpu_pc, vcpu_kernel_load, vcpu_index>>
device_fields == <<device_mgr, shared_device_mgr, serial, event_mgr,
                   dormant_devices, irq_wired, activation_log>>
boot_fields == <<kernel_load, bootparams, guest_writes>>
vmm_fields == <<kvm_fields, vcpu_fields, device_fields, boot_fields>>
loop_fields == <<pending, dispatched, run_result>>

NoResult == [kind |-> "None", cap |-> "none", ver |-> 0]

\* no block device is being configured
NoBlock == [file_size |-> U64Zero, state |-> "none", config_space |-> <<>>]

\* ------------------------------------------------------------------
\* api-cpp: the ffi configuration records and their conversions
\* ------------------------------------------------------------------
\* PathBuf::from(String): a path that holds the bytes of the string
PathBuf(s) == [inner |-> s]

\* ffi::VMMConfig::default(): the derived Default of every field
FfiDefault ==
    [memory_config |-> [size_mib |-> <<0, 0>>],
     vcpu_config |-> [num |-> 0],
     kernel_config |-> [cmdline |-> "", path |-> "", himem_start |-> U64Zero]]

\* vmm::KernelConfig::default(): the command line and the high memory start
\* the vmm crate starts a kernel with
KernelConfigDefault ==
    [cmdline |-> "console=ttyS0 i8042.nokbd reboot=k panic=1 pci=off",
     path |-> PathBuf(""),
     himem_start |-> <<0, 1, 0>>]

\* a plausible slip: every field of the ffi record is carried over
KernelConfigIntoAllFields(self) ==
    [cmdline |-> self.cmdline,
     path |-> PathBuf(self.path),
     himem_start |-> self.himem_start]

\* Into<vmm::KernelConfig> for ffi::KernelConfig: the path, and
\* ..Default::default() for the other fields
KernelConfigInto(self) ==
    [KernelConfigDefault EXCEPT !.path = PathBuf(self.path)]

\* Into<vmm::MemoryConfig> for ffi::MemoryConfig
MemoryConfigInto(self) == [size_mib |-> self.size_mib]

\* Into<vmm::VcpuConfig> for ffi::VcpuConfig
VcpuConfigInto(self) == [num |-> self.num]

\* Into<vmm::VMMConfig> for ffi::VMMConfig
VMMConfigInto(self) ==
    [kernel_config |-> KernelConfigInto(self.kernel_config),
     memory_config |-> MemoryConfigInto(self.memory_config),
     vcpu_config |-> VcpuConfigInto(self.vcpu_config)]

\* records the command line parser may fill in: size_mib is a u32, num a u8,
\* himem_start a u64
FfiConfigs ==
    [memory_config : [size_mib : {<<0, 0>>, <<1024, 0>>, <<LIMB - 1, U32_TOP - 1>>}],
     vcpu_config : [num : {0, 1, 255}],
     kernel_config :
        [cmdline : {"", "console=ttyS0", KernelConfigDefault.cmdline},
         path : {"", "./bzimage", "/boot/vmlinux-hello"},
         himem_start : {U64Zero, <<0, 1, 0>>, <<0, 2, 0>>,
                        <<LIMB - 1, LIMB - 1, TOP_LIMB - 1>>}]]

\* no configuration is being converted
NoConversion ==
    /\ vmm_config = FfiDefault
    /\ converted_config = <<>>

\* the serial console before it is created; holder is the set of threads that
\* hold its lock, inside the set of threads that are running its code
NoSerial == [created |-> FALSE, mutex |-> FALSE, holder |-> {}, inside |-> {}]

\* nothing is constructed yet
Fresh ==
    /\ result = NoResult
    /\ panic = "none"
    /\ stderr = ""
    /\ calls = <<>>
    /\ kvm = FALSE
    /\ mem_regions = <<>>
    /\ guest_memory = FALSE
    /\ vm_created = FALSE
    /\ vcpus = <<>>
    /\ vcpus_running = FALSE
    /\ vcpu_pc = <<>>
    /\ device_mgr = <<>>
    /\ shared_device_mgr = <<>>
    /\ serial = NoSerial
    /\ event_mgr = [created |-> FALSE, subscribers |-> {}]
    /\ dormant_devices = <<>>
    /\ irq_wired = {}
    /\ activation_log = <<>>
    /\ kernel_load = <<>>
    /\ bootparams = <<>>
    /\ guest_writes = <<>>
    /\ vcpu_kernel_load = 0
    /\ vcpu_index = 0
    /\ pending = 0
    /\ dispatched = 0
    /\ run_result = NoResult
    /\ stages = <<>>

Configs == [mem_size_mib : MemSizes, num_vcpus : 0..MaxVcpus,
            cmdline_len : CmdlineLens]

Init ==
    /\ pc = "main"
    /\ caller = "try_from"
    /\ kvm_api_ver \in ApiVersions
    /\ host_caps \in SUBSET Caps
    /\ config \in Configs
    /\ block = NoBlock
    /\ NoConversion
    /\ Fresh

\* the steps of VMM::new
NewSteps == {"kvm_new", "check_api_version", "check_kvm_capabilities",
             "create_guest_memory", "kvm_vm_new", "vmm_struct",
             "configure_pio_devices"}

\* `?` on an Err: the error is returned from VMM::try_from, or to the client;
\* an error of VMM::new leaves the client without a VMM
Fail(e) ==
    /\ pc' = IF caller = "try_from" THEN "try_from_returned"
             ELSE IF pc \in NewSteps THEN "no_vmm" ELSE "client"
    /\ result' = e
    /\ UNCHANGED <<panic, stderr, stages>>

\* a step that succeeded
Pass(next, stage) ==
    /\ pc' = next
    /\ stages' = Append(stages, stage)
    /\ UNCHANGED <<result, panic, stderr>>

\* the last step of a public operation succeeded: try_from goes on with the
\* next operation, a client gets Ok
Return(next, stage) ==
    /\ pc' = IF caller = "try_from" THEN next ELSE "client"
    /\ result' = IF caller = "try_from" THEN result ELSE Ok
    /\ stages' = Append(stages, stage)
    /\ UNCHANGED <<panic, stderr>>

\* unwrap or expect on an Err or a None
Panic(msg) ==
    /\ pc' = "panicked"
    /\ panic' = msg
    /\ UNCHANGED <<result, stderr, stages>>

\* ------------------------------------------------------------------
\* main: the command line is parsed into the configuration
\* ------------------------------------------------------------------
CliLaunch ==
    /\ pc = "main"
    /\ \E parsed \in BOOLEAN :
        IF parsed
        THEN /\ pc' = "kvm_new"
             /\ UNCHANGED stderr
        ELSE /\ pc' = "exit"
             /\ stderr' = "Failed to parse VMM configuration!"
    /\ UNCHANGED <<result, panic, stages, host, vmm_fields, loop_fields>>

\* ------------------------------------------------------------------
\* VMM::new
\* ------------------------------------------------------------------
KvmNew ==
    /\ pc = "kvm_new"
    /\ \E ok \in BOOLEAN :
        IF ok
        THEN /\ kvm' = TRUE
             /\ Pass("check_api_version", "kvm_new")
        ELSE /\ UNCHANGED kvm
             /\ Fail(Err("KvmIoctl"))
    /\ UNCHANGED <<host, mem_regions, guest_memory, vm_created, vcpu_fields,
                   device_fields, boot_fields, loop_fields>>

\* a plausible slip: the mismatch is computed and not returned
CheckApiVersionIgnored ==
    /\ pc = "check_api_version"
    /\ Pass("check_kvm_capabilities", "api_version")
    /\ UNCHANGED <<host, vmm_fields, loop_fields>>

CheckApiVersion ==
    /\ pc = "check_api_version"
    /\ IF kvm_api_ver # KVM_API_VERSION
       THEN Fail(KvmApiVersion(kvm_api_ver))
       ELSE Pass("check_kvm_capabilities", "api_version")
    /\ UNCHANGED <<host, vmm_fields, loop_fields>>

\* a plausible slip: the `?` is missing and the Result is dropped
CheckKvmCapabilitiesIgnored ==
    /\ pc = "check_kvm_capabilities"
    /\ Pass("create_guest_memory", "kvm_capabilities")
    /\ UNCHANGED <<host, vmm_fields, loop_fields>>

CheckKvmCapabilities ==
    /\ pc = "check_kvm_capabilities"
    /\ LET r == check_kvm_capabilities(host_caps)
       IN  IF r # Ok
           THEN Fail(r)
           ELSE Pass("create_guest_memory", "kvm_capabilities")
    /\ UNCHANGED <<host, vmm_fields, loop_fields>>

CreateGuestMemory ==
    /\ pc = "create_guest_memory"
    /\ mem_regions' = create_guest_memory(config.mem_size_mib)
    \* GuestMemoryMmap::from_ranges may fail, and cannot map an empty region
    /\ \E ok \in BOOLEAN :
        IF ok /\ \A i \in DOMAIN mem_regions' : mem_regions'[i].len # U64Zero
        THEN /\ guest_memory' = TRUE
             /\ Pass("kvm_vm_new", "guest_memory")
        ELSE /\ UNCHANGED guest_memory
             /\ Fail(Err("Memory"))
    /\ UNCHANGED <<host, kvm, vm_created, vcpu_fields, device_fields,
                   boot_fields, loop_fields>>

KvmVmNew ==
    /\ pc = "kvm_vm_new"
    /\ \E ok \in BOOLEAN :
        IF ok
        THEN /\ vm_created' = TRUE
             /\ Pass("vmm_struct", "kvm_vm")
        ELSE /\ UNCHANGED vm_created
             /\ Fail(Err("Vm"))
    /\ UNCHANGED <<host, kvm, mem_regions, guest_memory, vcpu_fields,
                   device_fields, boot_fields, loop_fields>>

\* the VMM struct literal: IoManager::new(), EventManager::new()?, vec![]
VmmStruct ==
    /\ pc = "vmm_struct"
    /\ \E ok \in BOOLEAN :
        IF ok
        THEN /\ device_mgr' = <<{}>>
             /\ event_mgr' = [created |-> TRUE, subscribers |-> {}]
             /\ dormant_devices' = <<>>
             /\ Pass("configure_pio_devices", "event_mgr")
        ELSE /\ UNCHANGED <<device_mgr, event_mgr, dormant_devices>>
             /\ Fail(Err("EventManager"))
    /\ UNCHANGED <<host, kvm_fields, vcpu_fields, shared_device_mgr, serial,
                   irq_wired, activation_log, boot_fields, loop_fields>>

\* a plausible slip: the serial console is shared without a lock around it
configure_pio_devices_unlocked ==
    /\ pc = "configure_pio_devices"
    /\ \E evt_ok \in BOOLEAN, clone_ok \in BOOLEAN :
        IF ~evt_ok \/ ~clone_ok
        THEN /\ UNCHANGED <<device_mgr, serial>>
             /\ Fail(Err("IO"))
        ELSE IF device_mgr = <<>>
        THEN /\ UNCHANGED device_mgr
             /\ serial' = [serial EXCEPT !.created = TRUE, !.mutex = FALSE]
             /\ Panic("Missing device manager")
        ELSE LET r == register_pio_resources(device_mgr[1], "serial", 1016, 8)
             IN  /\ serial' = [serial EXCEPT !.created = TRUE, !.mutex = FALSE]
                 /\ IF r = <<>>
                    THEN /\ UNCHANGED device_mgr
                         /\ Panic("unwrap on an Err value")
                    ELSE /\ device_mgr' = r
                         /\ Return("configure_kernel", "pio_devices")
    /\ UNCHANGED <<host, kvm_fields, vcpu_fields, shared_device_mgr, event_mgr,
                   dormant_devices, irq_wired, activation_log, boot_fields,
                   loop_fields>>

\* the serial console is an Arc<Mutex<SerialWrapper>>; a clone of the Arc is
\* registered on the bus for the ports 0x3f8..0x3ff, and the Result of the
\* registration is unwrapped
configure_pio_devices ==
    /\ pc = "configure_pio_devices"
    /\ \E evt_ok \in BOOLEAN, clone_ok \in BOOLEAN :
        IF ~evt_ok \/ ~clone_ok
        THEN /\ UNCHANGED <<device_mgr, serial>>
             /\ Fail(Err("IO"))
        ELSE IF device_mgr = <<>>
        THEN /\ UNCHANGED device_mgr
             /\ serial' = [serial EXCEPT !.created = TRUE, !.mutex = TRUE]
             /\ Panic("Missing device manager")
        ELSE LET r == register_pio_resources(device_mgr[1], "serial", 1016, 8)
             IN  /\ serial' = [serial EXCEPT !.created = TRUE, !.mutex = TRUE]
                 /\ IF r = <<>>
                    THEN /\ UNCHANGED device_mgr
                         /\ Panic("unwrap on an Err value")
                    ELSE /\ device_mgr' = r
                         /\ Return("configure_kernel", "pio_devices")
    /\ UNCHANGED <<host, kvm_fields, vcpu_fields, shared_device_mgr, event_mgr,
                   dormant_devices, irq_wired, activation_log, boot_fields,
                   loop_fields>>

\* ------------------------------------------------------------------
\* VMM::configure_kernel
\* ------------------------------------------------------------------
KernelRest == <<host, kvm_fields, vcpu_fields, device_fields, loop_fields>>

\* a write into guest memory: what, at which guest address, of how many bytes
\* (0 where the model does not follow the size), and for the zero page the
\* boot_params written
GuestWrite(what, addr, size, params) ==
    [what |-> what, addr |-> addr, size |-> size, params |-> params]

OpenKernelImage ==
    /\ pc = "configure_kernel"
    /\ \E ok \in BOOLEAN :
        IF ok THEN Pass("elf_load", "kernel_open") ELSE Fail(Err("IO"))
    /\ UNCHANGED <<KernelRest, boot_fields>>

ElfLoad ==
    /\ pc = "elf_load"
    /\ \E ok \in BOOLEAN, entry \in KernelEntries :
        IF ok
        THEN /\ kernel_load' = <<entry>>
             /\ guest_writes' =
                    Append(guest_writes, GuestWrite("kernel", entry, 0, <<>>))
             /\ Pass("build_bootparams", "kernel_load")
        ELSE /\ UNCHANGED <<kernel_load, guest_writes>>
             /\ Fail(Err("KernelLoad"))
    /\ UNCHANGED <<KernelRest, bootparams>>

BuildBootparams ==
    /\ pc = "build_bootparams"
    /\ \E ok \in BOOLEAN :
        IF ok
        THEN /\ bootparams' = <<[cmd_line_ptr |-> 0, cmdline_size |-> 0]>>
             /\ Pass("insert_cmdline", "bootparams")
        ELSE /\ UNCHANGED bootparams
             /\ Fail(Err("BootParam"))
    /\ UNCHANGED <<KernelRest, kernel_load, guest_writes>>

\* a plausible slip: the terminating NUL is not counted
InsertCmdlineNoNul ==
    /\ pc = "insert_cmdline"
    /\ bootparams' = <<[cmd_line_ptr |-> CMDLINE_START,
                        cmdline_size |-> config.cmdline_len]>>
    /\ \E ok \in BOOLEAN :
        IF ok THEN Pass("load_cmdline", "cmdline") ELSE Fail(Err("Cmdline"))
    /\ UNCHANGED <<KernelRest, kernel_load, guest_writes>>

\* the address and the size of the command line are put in the boot_params,
\* then the command line is built
InsertCmdline ==
    /\ pc = "insert_cmdline"
    /\ bootparams' = <<[cmd_line_ptr |-> CMDLINE_START,
                        cmdline_size |-> config.cmdline_len + 1]>>
    /\ \E ok \in BOOLEAN :
        IF ok THEN Pass("load_cmdline", "cmdline") ELSE Fail(Err("Cmdline"))
    /\ UNCHANGED <<KernelRest, kernel_load, guest_writes>>

\* load_cmdline writes the command line and its NUL at CMDLINE_START
LoadCmdline ==
    /\ pc = "load_cmdline"
    /\ \E ok \in BOOLEAN :
        IF ok
        THEN /\ guest_writes' =
                    Append(guest_writes,
                           GuestWrite("cmdline", CMDLINE_START,
                                      config.cmdline_len + 1, <<>>))
             /\ Pass("write_bootparams", "load_cmdline")
        ELSE /\ UNCHANGED guest_writes
             /\ Fail(Err("KernelLoad"))
    /\ UNCHANGED <<KernelRest, kernel_load, bootparams>>

WriteBootparams ==
    /\ pc = "write_bootparams"
    /\ \E ok \in BOOLEAN :
        IF ok
        THEN /\ guest_writes' =
                    Append(guest_writes,
                           GuestWrite("bootparams", ZEROPG_START, 0, bootparams))
             /\ Return("create_vcpus", "write_bootparams")
        ELSE /\ UNCHANGED guest_writes
             /\ Fail(Err("BootConfigure"))
    /\ UNCHANGED <<KernelRest, kernel_load, bootparams>>

\* ------------------------------------------------------------------
\* VMM::create_vcpus
\* ------------------------------------------------------------------
VcpusRest == <<host, kvm_fields, vcpus_running, vcpu_pc, serial, event_mgr,
               dormant_devices, irq_wired, activation_log, boot_fields,
               loop_fields>>

\* the kernel_load argument: try_from passes what configure_kernel returned,
\* a client any address
KernelLoadArgs ==
    IF caller = "try_from" THEN {kernel_load[1]} ELSE KernelEntries

\* a plausible slip: the device manager is taken after the CPUID query
CreateVcpusBeginTakeLate ==
    /\ pc = "create_vcpus"
    /\ IF device_mgr = <<>>
       THEN /\ UNCHANGED <<device_mgr, shared_device_mgr, vcpu_index,
                           vcpu_kernel_load>>
            /\ Panic("Missing device manager")
       ELSE \E ok \in BOOLEAN, addr \in KernelLoadArgs :
                /\ vcpu_kernel_load' = addr
                /\ IF ok
                   THEN /\ device_mgr' = <<>>
                        /\ shared_device_mgr' = device_mgr
                        /\ vcpu_index' = 0
                        /\ Pass("create_vcpu", "cpuid")
                   ELSE /\ UNCHANGED <<device_mgr, shared_device_mgr, vcpu_index>>
                        /\ Fail(Err("KvmIoctl"))
    /\ UNCHANGED <<VcpusRest, vcpus>>

\* a plausible slip: a failed CPUID query is not returned
CreateVcpusBeginNoCpuid ==
    /\ pc = "create_vcpus"
    /\ IF device_mgr = <<>>
       THEN /\ UNCHANGED <<device_mgr, shared_device_mgr, vcpu_index,
                           vcpu_kernel_load>>
            /\ Panic("Missing device manager")
       ELSE /\ device_mgr' = <<>>
            /\ \E ok \in BOOLEAN, addr \in KernelLoadArgs :
                /\ vcpu_kernel_load' = addr
                /\ shared_device_mgr' = device_mgr
                /\ vcpu_index' = 0
                /\ pc' = "create_vcpu"
                /\ stages' = IF ok THEN Append(stages, "cpuid") ELSE stages
                /\ UNCHANGED <<result, panic, stderr>>
    /\ UNCHANGED <<VcpusRest, vcpus>>

\* device_mgr.take().expect(..), then get_supported_cpuid
CreateVcpusBegin ==
    /\ pc = "create_vcpus"
    /\ IF device_mgr = <<>>
       THEN /\ UNCHANGED <<device_mgr, shared_device_mgr, vcpu_index,
                           vcpu_kernel_load>>
            /\ Panic("Missing device manager")
       ELSE /\ device_mgr' = <<>>
            /\ \E ok \in BOOLEAN, addr \in KernelLoadArgs :
                /\ vcpu_kernel_load' = addr
                /\ IF ok
                   THEN /\ shared_device_mgr' = device_mgr
                        /\ vcpu_index' = 0
                        /\ Pass("create_vcpu", "cpuid")
                   ELSE /\ UNCHANGED <<shared_device_mgr, vcpu_index>>
                        /\ Fail(Err("KvmIoctl"))
    /\ UNCHANGED <<VcpusRest, vcpus>>

\* a plausible slip: every vCPU is given the id 0
VcpuStateSameId(index) ==
    [id |-> 0,
     kernel_load_addr |-> vcpu_kernel_load,
     zero_page_start |-> ZEROPG_START,
     cpuid |-> [index |-> index, num_vcpus |-> config.num_vcpus]]

VcpuState(index) ==
    [id |-> index,
     kernel_load_addr |-> vcpu_kernel_load,
     zero_page_start |-> ZEROPG_START,
     cpuid |-> [index |-> index, num_vcpus |-> config.num_vcpus]]

\* KvmVm::create_vcpu: the vCPU holds its state and its clone of the Arc
KvmVcpu(bus, state) == [bus |-> bus, state |-> state]

\* a plausible slip: the Result of create_vcpu is dropped and the loop goes on
CreateVcpuIgnored ==
    /\ pc = "create_vcpu"
    /\ vcpu_index < config.num_vcpus
    /\ \E ok \in BOOLEAN :
        /\ vcpus' = IF ok
                    THEN Append(vcpus, KvmVcpu(shared_device_mgr[1],
                                               VcpuState(vcpu_index)))
                    ELSE vcpus
        /\ vcpu_index' = vcpu_index + 1
        /\ IF ok THEN Pass("create_vcpu", "vcpu")
           ELSE UNCHANGED <<pc, result, panic, stderr, stages>>
    /\ UNCHANGED <<VcpusRest, device_mgr, shared_device_mgr, vcpu_kernel_load>>

\* one turn of the loop over 0..num_vcpus
CreateVcpu ==
    /\ pc = "create_vcpu"
    /\ vcpu_index < config.num_vcpus
    /\ \E ok \in BOOLEAN :
        \* the local Arc is dropped on return; the bus lives on in the vCPUs
        \* that hold a clone of it
        /\ shared_device_mgr' =
            IF ok \/ vcpus # <<>> THEN shared_device_mgr ELSE <<>>
        /\ IF ok
           THEN /\ vcpus' = Append(vcpus, KvmVcpu(shared_device_mgr[1],
                                                  VcpuState(vcpu_index)))
                /\ vcpu_index' = vcpu_index + 1
                /\ Pass("create_vcpu", "vcpu")
           ELSE /\ UNCHANGED <<vcpus, vcpu_index>>
                /\ Fail(Err("Vm"))
    /\ UNCHANGED <<VcpusRest, device_mgr, vcpu_kernel_load>>

\* the loop is over: create_vcpus returns Ok
CreateVcpusDone ==
    /\ pc = "create_vcpu"
    /\ vcpu_index >= config.num_vcpus
    /\ pc' = IF caller = "try_from" THEN "try_from_returned" ELSE "client"
    /\ result' = Ok
    /\ stages' = Append(stages, "vcpus")
    \* the local Arc is dropped on return; the bus lives on in the vCPUs
    /\ shared_device_mgr' = IF vcpus # <<>> THEN shared_device_mgr ELSE <<>>
    /\ UNCHANGED <<panic, stderr, VcpusRest, vcpus, device_mgr,
                   vcpu_kernel_load, vcpu_index>>

\* ------------------------------------------------------------------
\* main: VMM::try_from(..).expect(..)
\* ------------------------------------------------------------------
MainExpect ==
    /\ pc = "try_from_returned"
    /\ IF result = Ok
       THEN /\ pc' = "run"
            /\ UNCHANGED <<result, panic, stderr, stages>>
       ELSE Panic("Failed to create VMM from configurations")
    /\ UNCHANGED <<host, vmm_fields, loop_fields>>

\* ------------------------------------------------------------------
\* VMM::run
\* ------------------------------------------------------------------
SetRawMode ==
    /\ pc = "run"
    /\ \E ok \in BOOLEAN :
        stderr' = IF ok THEN stderr
                  ELSE "Failed to set raw mode on terminal. Stdin will echo."
    /\ pc' = "activate"
    /\ UNCHANGED <<result, panic, stages, host, vmm_fields, loop_fields>>

\* the passes of the first n dormant devices through the loop, all successful
Activated(n) == [i \in 1..n |-> [dev |-> dormant_devices[i], ok |-> TRUE]]

RunRest == <<host, kvm_fields, vcpu_fields, device_mgr, shared_device_mgr,
             serial, boot_fields, loop_fields>>

\* a plausible slip: a device whose interrupt cannot be set up is skipped
ActivateDevicesSkipFailed ==
    /\ pc = "activate"
    /\ \E failed \in SUBSET DOMAIN dormant_devices :
        LET done == {dormant_devices[i] : i \in DOMAIN dormant_devices \ failed}
        IN  /\ irq_wired' = irq_wired \cup done
            /\ event_mgr' = [event_mgr EXCEPT !.subscribers = @ \cup done]
            /\ dormant_devices' = <<>>
            /\ activation_log' = activation_log \o
                   [i \in DOMAIN dormant_devices |->
                       [dev |-> dormant_devices[i], ok |-> i \notin failed]]
            /\ Pass("vm_run", "activation")
    /\ UNCHANGED RunRest

\* a plausible slip: the loop goes over dormant_devices.iter(), and the
\* devices stay in the list
ActivateDevicesNoDrain ==
    /\ pc = "activate"
    /\ \E n \in 0..Len(dormant_devices) :
        LET done == {dormant_devices[i] : i \in 1..n}
        IN  /\ irq_wired' = irq_wired \cup done
            /\ event_mgr' = [event_mgr EXCEPT !.subscribers = @ \cup done]
            /\ UNCHANGED dormant_devices
            /\ IF n = Len(dormant_devices)
               THEN /\ activation_log' = activation_log \o Activated(n)
                    /\ Pass("vm_run", "activation")
               ELSE /\ activation_log' = activation_log \o
                        Append(Activated(n),
                               [dev |-> dormant_devices[n + 1], ok |-> FALSE])
                    /\ Panic("unwrap on an Err value")
    /\ UNCHANGED RunRest

\* the loop over dormant_devices.drain(..): the first n devices are wired and
\* subscribed; if there is a next one, setting up its interrupt fails and the
\* unwrap panics, and the drain drops the rest
ActivateDevices ==
    /\ pc = "activate"
    /\ \E n \in 0..Len(dormant_devices) :
        LET done == {dormant_devices[i] : i \in 1..n}
        IN  /\ irq_wired' = irq_wired \cup done
            /\ event_mgr' = [event_mgr EXCEPT !.subscribers = @ \cup done]
            /\ dormant_devices' = <<>>
            /\ IF n = Len(dormant_devices)
               THEN /\ activation_log' = activation_log \o Activated(n)
                    /\ Pass("vm_run", "activation")
               ELSE /\ activation_log' = activation_log \o
                        Append(Activated(n),
                               [dev |-> dormant_devices[n + 1], ok |-> FALSE])
                    /\ Panic("unwrap on an Err value")
    /\ UNCHANGED RunRest

\* KvmVm::run starts the vCPUs if as many were created as the VmState given to
\* KvmVm::new asks for, and is an error otherwise
KvmVmRunStarts == Len(vcpus) = config.num_vcpus

\* self.vm.run().expect(..)
VmRun ==
    /\ pc = "vm_run"
    /\ \E ok \in BOOLEAN :
        IF ok /\ KvmVmRunStarts
        THEN /\ vcpus_running' = TRUE
             /\ vcpu_pc' = [i \in 1..Len(vcpus) |-> "guest"]
             /\ Pass("event_loop", "vm_run")
        ELSE /\ UNCHANGED <<vcpus_running, vcpu_pc>>
             /\ Panic("Cannot start vcpus.")
    /\ UNCHANGED <<host, kvm_fields, vcpus, vcpu_kernel_load, vcpu_index,
                   device_fields, boot_fields, loop_fields>>

\* an event source becomes ready while the loop runs
EventReady ==
    /\ pc \in {"event_loop", "event_loop_match"}
    /\ pending < MaxPending
    /\ pending' = pending + 1
    /\ UNCHANGED <<pc, result, panic, stderr, stages, host, vmm_fields,
                   dispatched, run_result>>

\* self.event_mgr.run(): blocks until events are ready and dispatches them, or
\* returns an error; events of the console are handed to it under its lock
EventMgrRun ==
    /\ pc = "event_loop"
    /\ \/ /\ pending > 0
          /\ run_result' = Ok
          /\ dispatched' = pending
          /\ pending' = 0
          /\ pc' = IF "serial" \in event_mgr.subscribers
                   THEN "dispatch" ELSE "event_loop_match"
       \/ \E e \in RunErrors :
          /\ run_result' = Err(e)
          /\ dispatched' = 0
          /\ pc' = "event_loop_match"
          /\ UNCHANGED pending
    /\ UNCHANGED <<result, panic, stderr, stages, host, vmm_fields>>

\* a plausible slip: the Err arm leaves the loop
EventLoopMatchBreak ==
    /\ pc = "event_loop_match"
    /\ IF run_result = Ok
       THEN /\ pc' = "event_loop"
            /\ UNCHANGED stderr
       ELSE /\ pc' = "run_returned"
            /\ stderr' = "Failed to handle events"
    /\ UNCHANGED <<result, panic, stages, host, vmm_fields, loop_fields>>

\* a plausible change: a failure to poll is singled out and ends the VMM
EventLoopMatchFatalPoll ==
    /\ pc = "event_loop_match"
    /\ IF run_result.kind = "Epoll"
       THEN Panic("Failed to poll")
       ELSE /\ pc' = "event_loop"
            /\ stderr' = IF run_result = Ok THEN stderr
                         ELSE "Failed to handle events"
            /\ UNCHANGED <<result, panic, stages>>
    /\ UNCHANGED <<host, vmm_fields, loop_fields>>

\* the match on the Result, and back to the head of the loop
EventLoopMatch ==
    /\ pc = "event_loop_match"
    /\ stderr' = IF run_result = Ok THEN stderr ELSE "Failed to handle events"
    /\ pc' = "event_loop"
    /\ UNCHANGED <<result, panic, stages, host, vmm_fields, loop_fields>>

\* ------------------------------------------------------------------
\* The serial console and the threads that use it
\* ------------------------------------------------------------------
\* the thread of main, which runs the event loop; vCPU thread i is i
MainThread == 0

\* the ports the guest touches
PioPorts == {128, 1016, 1023}

\* the bus of the vCPUs dispatches the port to the console
ConsolePort(port) ==
    /\ shared_device_mgr # <<>>
    /\ \E e \in shared_device_mgr[1] :
        e.dev = "serial" /\ e.base <= port /\ port < e.base + e.size

\* Mutex::lock returns when nobody holds the lock; without a Mutex nothing
\* is waited for
SerialCanEnter == serial.mutex => serial.holder = {}

SerialEnter(t) ==
    [serial EXCEPT !.holder = IF serial.mutex THEN @ \cup {t} ELSE @,
                   !.inside = @ \cup {t}]

\* the guard is dropped when the access is over
SerialLeave(t) ==
    [serial EXCEPT !.holder = @ \ {t}, !.inside = @ \ {t}]

ThreadRest == <<result, panic, stderr, stages, host, kvm_fields, vcpus,
                vcpus_running, vcpu_kernel_load, vcpu_index, device_mgr,
                shared_device_mgr, event_mgr, dormant_devices, irq_wired,
                activation_log, boot_fields, loop_fields>>

\* the guest of a vCPU reads or writes a port of the console: a PIO exit
VcpuPioExit ==
    /\ \E i \in DOMAIN vcpu_pc, port \in PioPorts :
        /\ vcpu_pc[i] = "guest"
        /\ ConsolePort(port)
        /\ vcpu_pc' = [vcpu_pc EXCEPT ![i] = "pio_lock"]
    /\ UNCHANGED <<pc, serial, ThreadRest>>

\* the bus calls the device through its Mutex, on the vCPU thread
VcpuPioLock ==
    /\ \E i \in DOMAIN vcpu_pc :
        /\ vcpu_pc[i] = "pio_lock"
        /\ SerialCanEnter
        /\ serial' = SerialEnter(i)
        /\ vcpu_pc' = [vcpu_pc EXCEPT ![i] = "pio_access"]
    /\ UNCHANGED <<pc, ThreadRest>>

\* the access, an interrupt it may raise included, is over
VcpuPioUnlock ==
    /\ \E i \in DOMAIN vcpu_pc :
        /\ vcpu_pc[i] = "pio_access"
        /\ serial' = SerialLeave(i)
        /\ vcpu_pc' = [vcpu_pc EXCEPT ![i] = "guest"]
    /\ UNCHANGED <<pc, ThreadRest>>

\* the event manager calls process() of the subscribed console through its
\* Mutex, on the thread of the event loop
SerialProcessLock ==
    /\ pc = "dispatch"
    /\ SerialCanEnter
    /\ serial' = SerialEnter(MainThread)
    /\ pc' = "dispatch_locked"
    /\ UNCHANGED <<vcpu_pc, ThreadRest>>

SerialProcessUnlock ==
    /\ pc = "dispatch_locked"
    /\ serial' = SerialLeave(MainThread)
    /\ pc' = "event_loop_match"
    /\ UNCHANGED <<vcpu_pc, ThreadRest>>

\* ------------------------------------------------------------------
\* A client of the public operations of VMM
\* ------------------------------------------------------------------
PublicOps == {"configure_kernel", "create_vcpus", "run"}

\* the client calls one more operation on the VMM that VMM::new returned
ClientCall ==
    /\ pc = "client"
    /\ Len(calls) < MaxCalls
    /\ \E op \in PublicOps :
        /\ pc' = op
        /\ calls' = Append(calls, op)
    /\ UNCHANGED <<result, panic, stderr, stages, kvm_api_ver, host_caps,
                   config, caller, block, vmm_config, converted_config,
                   vmm_fields, loop_fields>>

\* the client catches the unwinding of a panic of an operation and goes on
\* using the VMM
ClientCatchUnwind ==
    /\ pc = "panicked"
    /\ caller = "client"
    /\ calls # <<>>
    /\ pc' = "client"
    /\ UNCHANGED <<result, panic, stderr, stages, host, vmm_fields, loop_fields>>

\* ------------------------------------------------------------------
\* virtio block: the configuration space
\* ------------------------------------------------------------------
\* x >> s on 64 bits, for s < 20
U64Shr(x, s) ==
    <<(x[1] \div 2^s) + (x[2] % 2^s) * 2^(20 - s),
      (x[2] \div 2^s) + (x[3] % 2^s) * 2^(20 - s),
      x[3] \div 2^s>>

\* u64::to_le_bytes: the eight bytes, the least significant first
to_le_bytes(x) ==
    <<x[1] % 256,
      (x[1] \div 256) % 256,
      (x[1] \div 65536) + (x[2] % 16) * 16,
      (x[2] \div 16) % 256,
      x[2] \div 4096,
      x[3] % 256,
      (x[3] \div 256) % 256,
      x[3] \div 65536>>

\* a plausible slip: the capacity is given in bytes
build_config_space_in_bytes(file_size) == to_le_bytes(file_size)

build_config_space(file_size) ==
    to_le_bytes(U64Shr(file_size, SECTOR_SHIFT))

\* sizes of the backing file tried
FileSizes ==
    {<<a, b, c>> : a \in {0, 1, 511, 512, 513, 1024, 524288, LIMB - 1},
                   b \in {0, 1, 511, 512, LIMB - 1},
                   c \in {0, 1, 512, TOP_LIMB - 1}}

\* File::open, seek to the end, and the configuration space
BuildConfigSpace ==
    /\ block.state = "pending"
    /\ \E outcome \in {"ok", "OpenFile", "Seek"} :
        block' = IF outcome = "ok"
                 THEN [block EXCEPT
                          !.state = "ok",
                          !.config_space = build_config_space(block.file_size)]
                 ELSE [block EXCEPT !.state = outcome]
    /\ UNCHANGED <<pc, result, panic, stderr, stages, kvm_api_ver, host_caps,
                   config, caller, calls, vmm_config, converted_config,
                   vmm_fields, loop_fields>>

\* ------------------------------------------------------------------
\* main: the conversion of the parsed configuration
\* ------------------------------------------------------------------
\* let converted_config: vmm::VMMConfig = vmm_config.into();
ConvertConfig ==
    /\ pc = "into"
    /\ converted_config' = <<VMMConfigInto(vmm_config)>>
    /\ pc' = "try_from"
    /\ UNCHANGED <<result, panic, stderr, stages, kvm_api_ver, host_caps,
                   config, caller, calls, block, vmm_config, vmm_fields,
                   loop_fields>>

\* ------------------------------------------------------------------
\* Specifications
\* ------------------------------------------------------------------
\* the steps of VMM::new before the devices
NewNext ==
    \/ KvmNew
    \/ CheckApiVersion
    \/ CheckKvmCapabilities
    \/ CreateGuestMemory
    \/ KvmVmNew
    \/ VmmStruct

KernelNext ==
    \/ OpenKernelImage
    \/ ElfLoad
    \/ BuildBootparams
    \/ InsertCmdline
    \/ LoadCmdline
    \/ WriteBootparams

VcpusNext ==
    \/ CreateVcpusBegin
    \/ CreateVcpu
    \/ CreateVcpusDone

\* VMM::run up to the start of the vCPUs
RunNext ==
    \/ SetRawMode
    \/ ActivateDevices
    \/ VmRun

\* the event loop of VMM::run
LoopNext ==
    \/ EventReady
    \/ EventMgrRun
    \/ EventLoopMatch

\* the vCPU threads
ThreadNext ==
    \/ VcpuPioExit
    \/ VcpuPioLock
    \/ VcpuPioUnlock

\* the program: main builds the VMM from the configuration and runs it
Next ==
    \/ CliLaunch
    \/ NewNext
    \/ configure_pio_devices
    \/ KernelNext
    \/ VcpusNext
    \/ MainExpect
    \/ RunNext
    \/ LoopNext
    \/ ThreadNext

Spec == Init /\ [][Next]_vars

\* configurations a client is followed with: the memory size plays no part
\* after VMM::new
ApiConfigs == [mem_size_mib : {<<0, 0>>, <<4096, 0>>},
               num_vcpus : 0..MaxVcpus, cmdline_len : {17}]

\* a client of the library: VMM::new, then any public operations in any
\* order, followed until the vCPUs are started
ApiInit ==
    /\ pc = "kvm_new"
    /\ caller = "client"
    /\ kvm_api_ver \in ApiVersions
    /\ host_caps \in SUBSET Caps
    /\ config \in ApiConfigs
    /\ block = NoBlock
    /\ NoConversion
    /\ Fresh

ApiNext ==
    \/ NewNext
    \/ configure_pio_devices
    \/ ClientCall
    \/ KernelNext
    \/ VcpusNext
    \/ RunNext

ApiSpec == ApiInit /\ [][ApiNext]_vars

\* devices other than the console that may already be on the bus
PriorBuses ==
    {{}} \cup {{[dev |-> "other", base |-> b, size |-> 8]} : b \in {1008, 1020, 1024}}

Devices == {"serial", "other"}

\* lists of devices waiting to be activated, each device at most once
DormantLists ==
    {<<>>} \cup {<<d>> : d \in Devices}
           \cup {s \in Devices \X Devices : s[1] # s[2]}

\* a VMM as the struct literal of VMM::new builds it, for any bus and any list
\* of dormant devices
AnyVmm ==
    /\ pc = "configure_pio_devices"
    /\ kvm_api_ver = KVM_API_VERSION
    /\ host_caps = Caps
    /\ config \in [mem_size_mib : {<<4096, 0>>}, num_vcpus : 0..MaxVcpus,
                   cmdline_len : {17}]
    /\ result = NoResult
    /\ panic = "none"
    /\ stderr = ""
    /\ calls = <<>>
    /\ block = NoBlock
    /\ NoConversion
    /\ kvm = TRUE
    /\ mem_regions = create_guest_memory(config.mem_size_mib)
    /\ guest_memory = TRUE
    /\ vm_created = TRUE
    /\ vcpus = <<>>
    /\ vcpus_running = FALSE
    /\ vcpu_pc = <<>>
    /\ device_mgr \in {<<b>> : b \in PriorBuses}
    /\ shared_device_mgr = <<>>
    /\ serial = NoSerial
    /\ event_mgr = [created |-> TRUE, subscribers |-> {}]
    /\ dormant_devices \in DormantLists
    /\ irq_wired = {}
    /\ activation_log = <<>>
    /\ kernel_load = <<>>
    /\ bootparams = <<>>
    /\ guest_writes = <<>>
    /\ vcpu_kernel_load = 0
    /\ vcpu_index = 0
    /\ pending = 0
    /\ dispatched = 0
    /\ run_result = NoResult
    /\ stages = <<"kvm_new", "api_version", "kvm_capabilities", "guest_memory",
                  "kvm_vm", "event_mgr">>

\* the program from there on: the devices, the kernel, the vCPUs, the
\* activation, the event loop and the vCPU threads
DeviceInit == AnyVmm /\ caller = "try_from"

DeviceNext ==
    \/ configure_pio_devices
    \/ KernelNext
    \/ VcpusNext
    \/ MainExpect
    \/ RunNext
    \/ LoopNext
    \/ ThreadNext
    \/ SerialProcessLock
    \/ SerialProcessUnlock

DeviceSpec == DeviceInit /\ [][DeviceNext]_vars

\* a client that catches the panics of the operations and calls again,
\* followed until the vCPUs are started
UnwindInit == AnyVmm /\ caller = "client" /\ device_mgr = <<{}>>

UnwindNext ==
    \/ configure_pio_devices
    \/ ClientCall
    \/ ClientCatchUnwind
    \/ KernelNext
    \/ VcpusNext
    \/ RunNext

UnwindSpec == UnwindInit /\ [][UnwindNext]_vars

\* block::build_config_space on backing files of any size
BlockInit ==
    /\ pc = "block"
    /\ caller = "try_from"
    /\ kvm_api_ver = KVM_API_VERSION
    /\ host_caps = Caps
    /\ config = [mem_size_mib |-> <<1, 0>>, num_vcpus |-> 0, cmdline_len |-> 0]
    /\ block \in [file_size : FileSizes, state : {"pending"},
                  config_space : {<<>>}]
    /\ NoConversion
    /\ Fresh

BlockNext == BuildConfigSpace

BlockSpec == BlockInit /\ [][BlockNext]_vars

\* main after cli.launch returned true, for every record it may have filled
ConvertInit ==
    /\ pc = "into"
    /\ caller = "try_from"
    /\ kvm_api_ver = KVM_API_VERSION
    /\ host_caps = Caps
    /\ config = [mem_size_mib |-> <<1, 0>>, num_vcpus |-> 0, cmdline_len |-> 0]
    /\ block = NoBlock
    /\ vmm_config \in FfiConfigs
    /\ converted_config = <<>>
    /\ Fresh

ConvertNext == ConvertConfig

ConvertSpec == ConvertInit /\ [][ConvertNext]_vars

\* ------------------------------------------------------------------
\* Properties
\* ------------------------------------------------------------------
Has(s) == \E i \in DOMAIN stages : stages[i] = s

\* step a was completed, and before step b was
Before(a, b) ==
    \E i \in DOMAIN stages, j \in DOMAIN stages :
        stages[i] = a /\ stages[j] = b /\ i < j

\* the devices registered on the bus, wherever the bus is held
BusDevices ==
    UNION ({device_mgr[i] : i \in DOMAIN device_mgr}
           \cup {shared_device_mgr[i] : i \in DOMAIN shared_device_mgr})

AllCaps == {"Irqchip", "Ioeventfd", "Irqfd", "UserMemory"}
CapOrder == <<"Irqchip", "Ioeventfd", "Irqfd", "UserMemory">>

\* the gate has been decided: it let the construction go on, or returned its error
GateDone == Has("kvm_capabilities") \/ result.kind \in {"KvmApiVersion", "KvmCap"}
GatePassed == Has("api_version") /\ Has("kvm_capabilities")

\* C1: when the vCPUs are started, every device registered on the bus they
\* share has its interrupt notification set up and is a subscriber of the
\* event manager.
C1_BusDevicesActiveAtCoreStart ==
    (vcpus_running /\ vcpus # <<>>) =>
        \A e \in BusDevices :
            e.dev \in irq_wired /\ e.dev \in event_mgr.subscribers

\* C2: guest memory, the KvmVm, the event manager and the PIO devices are
\* created only after the API version check and check_kvm_capabilities have
\* both succeeded on a host that passes them; when the gate fails none exists.
C2_GateBeforeState ==
    /\ \A s \in {"guest_memory", "kvm_vm", "event_mgr", "pio_devices"} :
        Has(s) => /\ Before("api_version", s)
                  /\ Before("kvm_capabilities", s)
    /\ (mem_regions # <<>> \/ guest_memory \/ vm_created \/ event_mgr.created
            \/ device_mgr # <<>> \/ shared_device_mgr # <<>>)
        => /\ kvm_api_ver = KVM_API_VERSION
           /\ AllCaps \subseteq host_caps
           /\ GatePassed
    /\ result.kind \in {"KvmApiVersion", "KvmCap"}
        => /\ ~Has("guest_memory") /\ ~Has("kvm_vm")
           /\ ~Has("event_mgr") /\ ~Has("pio_devices")

C2_Witness ==
    /\ Has("pio_devices")
    /\ device_mgr # <<>>
    /\ event_mgr.created /\ guest_memory /\ vm_created

\* C3: the gate passes exactly when the host reports API version 12 and all
\* four capabilities; on a version mismatch the error is KvmApiVersion with
\* the reported version, whatever capabilities are missing.
C3_GateIff ==
    GateDone =>
        /\ GatePassed <=> (kvm_api_ver = KVM_API_VERSION /\ AllCaps \subseteq host_caps)
        /\ kvm_api_ver # KVM_API_VERSION =>
            result = [kind |-> "KvmApiVersion", cap |-> "none", ver |-> kvm_api_ver]

C3_Witness ==
    /\ kvm_api_ver = 13
    /\ host_caps = {"Irqchip"}
    /\ result = [kind |-> "KvmApiVersion", cap |-> "none", ver |-> 13]

\* C4: when a required capability is missing, the error is KvmCap of the first
\* missing one in the order Irqchip, Ioeventfd, Irqfd, UserMemory; a host with
\* only Irqchip and Ioeventfd is told Irqfd.
C4_FirstMissingCap ==
    (GateDone /\ kvm_api_ver = KVM_API_VERSION /\ ~(AllCaps \subseteq host_caps)) =>
        /\ \E i \in 1..4 :
            /\ CapOrder[i] \notin host_caps
            /\ \A j \in 1..(i - 1) : CapOrder[j] \in host_caps
            /\ result = [kind |-> "KvmCap", cap |-> CapOrder[i], ver |-> 0]
        /\ host_caps = {"Irqchip", "Ioeventfd"} => result.cap = "Irqfd"

C4_Witness ==
    /\ host_caps = {"Irqchip", "Ioeventfd"}
    /\ result = [kind |-> "KvmCap", cap |-> "Irqfd", ver |-> 0]

\* s MiB in bytes, exactly (s a u32)
MiB(s) == <<0, s[1], s[2]>>
\* s <= n and s > n for a u32 s and a number n < 2^20
AtMost(s, n) == s[2] = 0 /\ s[1] <= n
MoreThan(s, n) == ~AtMost(s, n)
\* one past the last byte of a region
RegionEnd(r) == U64Add(r.base, r.len)
\* some byte of region r lies in [lo, hi)
Touches(r, lo, hi) ==
    /\ r.len # U64Zero
    /\ U64Lt(r.base, hi)
    /\ U64Lt(lo, RegionEnd(r))

MemComputed == mem_regions # <<>>

\* C5: for a requested size of at most 3072 MiB (0 and 3072 included) exactly
\* one region is computed, at base 0 and of the requested size.
C5_OneRegionUpTo3072 ==
    (MemComputed /\ AtMost(config.mem_size_mib, 3072)) =>
        mem_regions = <<[base |-> <<0, 0, 0>>, len |-> MiB(config.mem_size_mib)]>>

C5_Witness ==
    /\ MemComputed
    /\ config.mem_size_mib = <<3072, 0>>
    /\ Len(mem_regions) = 1

\* C6, as stated: for a requested size above 3072 MiB two regions are
\* computed, (0, 3072 MiB) and (4 GiB, size - 3072 MiB); for 4096 MiB the
\* second is 1024 MiB long.
C6_TwoRegionsAbove3072 ==
    (MemComputed /\ MoreThan(config.mem_size_mib, 3072)) =>
        /\ mem_regions =
            <<[base |-> <<0, 0, 0>>, len |-> <<0, 3072, 0>>],
              [base |-> <<0, 4096, 0>>,
               len |-> U64Sub(MiB(config.mem_size_mib), <<0, 3072, 0>>)]>>
        /\ config.mem_size_mib = <<4096, 0>> =>
            mem_regions[2].len = <<0, 1024, 0>>

\* C6, amended: for a requested size above 3328 MiB two regions are computed,
\* (0, 3328 MiB) and (4 GiB, size - 3328 MiB); their lengths add up to the
\* requested size exactly for every 32-bit MiB count; for 4096 MiB the second
\* is 768 MiB long.
C6_TwoRegionsAbove3328 ==
    (MemComputed /\ MoreThan(config.mem_size_mib, 3328)) =>
        /\ mem_regions =
            <<[base |-> <<0, 0, 0>>, len |-> <<0, 3328, 0>>],
              [base |-> <<0, 4096, 0>>,
               len |-> U64Sub(MiB(config.mem_size_mib), <<0, 3328, 0>>)]>>
        /\ U64Add(mem_regions[1].len, mem_regions[2].len) = MiB(config.mem_size_mib)
        /\ U64Lt(mem_regions[2].len, MiB(config.mem_size_mib))
        /\ config.mem_size_mib = <<4096, 0>> =>
            mem_regions[2].len = <<0, 768, 0>>

C6_Witness ==
    /\ MemComputed
    /\ config.mem_size_mib = <<4096, 0>>
    /\ Len(mem_regions) = 2

\* the regions are in the order of their bases and do not overlap
RegionsOrderedDisjoint ==
    \A i \in 1..(Len(mem_regions) - 1) :
        /\ U64Lt(mem_regions[i].base, mem_regions[i + 1].base)
        /\ U64Le(RegionEnd(mem_regions[i]), mem_regions[i + 1].base)
        /\ U64Le(mem_regions[i].base, RegionEnd(mem_regions[i]))

\* C7, as stated: the regions are ordered by base, disjoint, and no byte of
\* them lies in [0xC000_0000, 0x1_0000_0000).
C7_NoByteInGapFrom3072 ==
    MemComputed =>
        /\ RegionsOrderedDisjoint
        /\ \A i \in DOMAIN mem_regions :
            ~Touches(mem_regions[i], <<0, 3072, 0>>, <<0, 4096, 0>>)

\* C7, amended: the regions are ordered by base, disjoint, and no byte of
\* them lies in [0xD000_0000, 0x1_0000_0000), the 768 MiB below 4 GiB.
C7_NoByteInGapFrom3328 ==
    MemComputed =>
        /\ RegionsOrderedDisjoint
        /\ \A i \in DOMAIN mem_regions :
            /\ ~Touches(mem_regions[i], <<0, 3328, 0>>, <<0, 4096, 0>>)
            /\ U64Le(mem_regions[i].base, RegionEnd(mem_regions[i]))

C7_Witness ==
    /\ MemComputed
    /\ config.mem_size_mib = <<LIMB - 1, U32_TOP - 1>>
    /\ Len(mem_regions) = 2
    /\ guest_memory

\* C8: an event_mgr.run() that returned an error does not end the loop: once
\* its result is matched the error is on stderr and the thread is back at the
\* head of the loop, with the vCPUs running.
C8_ErrorKeepsLoopRunning ==
    (run_result.kind \notin {"None", "Ok"} /\ pc # "event_loop_match") =>
        /\ pc = "event_loop"
        /\ stderr = "Failed to handle events"
        /\ vcpus_running

\* a batch of events is dispatched after an earlier iteration failed
C8_Witness ==
    /\ stderr = "Failed to handle events"
    /\ run_result.kind = "Ok"
    /\ dispatched > 0
    /\ pc = "event_loop"

SetupOrder ==
    <<"kvm_new", "api_version", "kvm_capabilities", "guest_memory", "kvm_vm",
      "event_mgr", "pio_devices", "kernel_open", "kernel_load", "bootparams",
      "cmdline", "load_cmdline", "write_bootparams", "cpuid", "vcpus",
      "activation", "vm_run">>

IsVcpuStage(s) == s = "vcpu"
IsSetupStage(s) == s # "vcpu"

SetupFailed == result.kind \notin {"None", "Ok"} \/ panic # "none"

\* C10: the vCPUs run only after every step of the setup succeeded, in order,
\* with all the vCPUs created between the CPUID query and the end of
\* create_vcpus; after a failed step no later step is taken and the vCPUs
\* are never started.
C10_SetupAllOrNothing ==
    /\ vcpus_running =>
        /\ SelectSeq(stages, IsSetupStage) = SetupOrder
        /\ Len(SelectSeq(stages, IsVcpuStage)) = config.num_vcpus
        /\ Len(vcpus) = config.num_vcpus
        /\ \A i \in DOMAIN stages :
            stages[i] = "vcpu" => /\ \E j \in 1..(i - 1) : stages[j] = "cpuid"
                                  /\ \A j \in 1..(i - 1) : stages[j] # "vcpus"
    /\ SetupFailed =>
        /\ ~vcpus_running
        /\ ~Has("vm_run")
        /\ pc \in {"try_from_returned", "panicked"}
        /\ result.kind \notin {"None", "Ok"} =>
            ~Has("vcpus") /\ ~Has("activation")
        /\ panic # "Cannot start vcpus." => ~Has("activation")

C10_Witness ==
    /\ vcpus_running
    /\ config.num_vcpus = 2
    /\ Len(vcpus) = 2

\* the vCPUs create_vcpus was asked for all exist, with the ids 0, 1, .. in
\* order, the kernel entry address create_vcpus was given and the zero page
\* at 0x7000
AllVcpusCreated ==
    /\ Len(vcpus) = config.num_vcpus
    /\ \A i \in DOMAIN vcpus :
        /\ vcpus[i].state.id = i - 1
        /\ vcpus[i].state.kernel_load_addr = vcpu_kernel_load
        /\ vcpus[i].state.zero_page_start = 28672
    /\ \A i \in DOMAIN vcpus, j \in DOMAIN vcpus :
        /\ i # j => vcpus[i].state.id # vcpus[j].state.id
        /\ vcpus[i].state.kernel_load_addr = vcpus[j].state.kernel_load_addr

CreateVcpuFailed == Has("cpuid") /\ ~Has("vcpus") /\ pc # "create_vcpu"

ActivationFailed == \E i \in DOMAIN activation_log : ~activation_log[i].ok

\* C13: when setting up the interrupt of a dormant device fails in run, the
\* thread panics: that device is the last the loop touched, it is neither
\* wired nor subscribed, the vCPUs are not started and the event loop is not
\* entered.
C13_ActivationFailureIsFatal ==
    ActivationFailed =>
        /\ \A i \in DOMAIN activation_log :
            activation_log[i].ok <=> i < Len(activation_log)
        /\ activation_log[Len(activation_log)].dev \notin irq_wired
        /\ activation_log[Len(activation_log)].dev \notin event_mgr.subscribers
        /\ pc = "panicked"
        /\ panic = "unwrap on an Err value"
        /\ ~vcpus_running
        /\ ~Has("activation") /\ ~Has("vm_run")
        /\ run_result = NoResult

\* the second of two dormant devices fails, with two vCPUs created
C13_Witness ==
    /\ activation_log = <<[dev |-> "other", ok |-> TRUE],
                          [dev |-> "serial", ok |-> FALSE]>>
    /\ Len(vcpus) = 2
    /\ pc = "panicked"

BootStages ==
    <<"kernel_load", "bootparams", "cmdline", "load_cmdline", "write_bootparams">>
IsBootStage(s) == \E i \in DOMAIN BootStages : BootStages[i] = s
IsPrefix(a, b) == Len(a) <= Len(b) /\ \A i \in DOMAIN a : a[i] = b[i]
\* the writes to guest memory the completed stages have made
WritesDone ==
    SelectSeq(<<"kernel_load", "load_cmdline", "write_bootparams">>, Has)

\* C14: configure_kernel loads the kernel, builds the boot parameters, puts
\* the command line address 0x20000 and the size cmdline.len() + 1 in them,
\* writes the command line at 0x20000 and writes the boot parameters at
\* 0x7000, in this order, each stage only after all the earlier ones
\* succeeded; the zero page is written only after the four others.
C14_BootStagesInOrder ==
    /\ IsPrefix(SelectSeq(stages, IsBootStage), BootStages)
    /\ (Has("bootparams") /\ pc # "insert_cmdline") =>
        bootparams = <<[cmd_line_ptr |-> 131072,
                        cmdline_size |-> config.cmdline_len + 1]>>
    /\ Len(guest_writes) = Len(WritesDone)
    /\ Has("kernel_load") => guest_writes[1].what = "kernel"
    /\ Has("load_cmdline") =>
        /\ guest_writes[2].what = "cmdline"
        /\ guest_writes[2].addr = 131072
        /\ guest_writes[2].size = config.cmdline_len + 1
    /\ Has("write_bootparams") =>
        /\ guest_writes[3].what = "bootparams"
        /\ guest_writes[3].addr = 28672
        /\ guest_writes[3].params = bootparams
    /\ \A i \in DOMAIN guest_writes :
        guest_writes[i].addr = 28672 =>
            /\ i = 3
            /\ \A j \in 1..4 : Has(BootStages[j])

\* the zero page is written for a command line of 17 bytes
C14_Witness ==
    /\ Has("write_bootparams")
    /\ config.cmdline_len = 17
    /\ guest_writes[3].params = <<[cmd_line_ptr |-> 131072, cmdline_size |-> 18]>>

LastStage == IF stages = <<>> THEN "none" ELSE stages[Len(stages)]

\* C15, as stated: the error configure_kernel returns names the stage that
\* failed: KernelLoad for the kernel load, BootParam for the construction of
\* the boot parameters, Cmdline for the encoding and for the write of the
\* command line, BootConfigure for the write of the zero page.
C15_ErrorNamesStage ==
    (pc = "try_from_returned" /\ result.kind \notin {"None", "Ok"}) =>
        /\ LastStage = "kernel_open" => result.kind = "KernelLoad"
        /\ LastStage = "kernel_load" => result.kind = "BootParam"
        /\ LastStage \in {"bootparams", "cmdline"} => result.kind = "Cmdline"
        /\ LastStage = "load_cmdline" => result.kind = "BootConfigure"

\* C16: however often a client calls run on a VMM, no device goes through the
\* loop of run again after it was wired and subscribed there; a device that
\* was activated is wired, subscribed and no longer dormant.
C16_ActivatedAtMostOnce ==
    /\ \A i \in DOMAIN activation_log, j \in DOMAIN activation_log :
        (i < j /\ activation_log[i].ok) =>
            activation_log[j].dev # activation_log[i].dev
    /\ \A i \in DOMAIN activation_log :
        activation_log[i].ok =>
            /\ activation_log[i].dev \in irq_wired
            /\ activation_log[i].dev \in event_mgr.subscribers
            /\ \A k \in DOMAIN dormant_devices :
                dormant_devices[k] # activation_log[i].dev

\* run was called twice: the first call activated the console and panicked on
\* the next device, the second found no dormant device
C16_Witness ==
    /\ calls = <<"run", "run">>
    /\ activation_log = <<[dev |-> "serial", ok |-> TRUE],
                          [dev |-> "other", ok |-> FALSE]>>
    /\ Has("activation")

\* a device on the bus claims ports of 0x3f8..0x3ff
ConsolePortsTaken ==
    \E e \in BusDevices :
        e.dev # "serial" /\ e.base < 1016 + 8 /\ 1016 < e.base + e.size

FromLeBytes(b) ==
    <<b[1] + b[2] * 256 + (b[3] % 16) * 65536,
      (b[3] \div 16) + b[4] * 16 + b[5] * 4096,
      b[6] + b[7] * 256 + b[8] * 65536>>

\* 512 * q, limb by limb; the top limb is out of range if it does not fit
Times512(q) ==
    <<(q[1] % 2048) * 512,
      (q[2] % 2048) * 512 + (q[1] \div 2048),
      q[3] * 512 + (q[2] \div 2048)>>

\* C18: for a backing file of n bytes build_config_space returns eight bytes,
\* which read as a little-endian u64 are floor(n / 512).
C18_ConfigSpaceIsSectorCount ==
    block.state = "ok" =>
        /\ Len(block.config_space) = 8
        /\ \A i \in 1..8 : block.config_space[i] \in 0..255
        /\ LET q == FromLeBytes(block.config_space)
               m == Times512(q)
           IN  /\ m[3] < 2^24
               /\ U64Le(m, block.file_size)
               /\ U64Lt(U64Sub(block.file_size, m), <<512, 0, 0>>)

\* the file of 1024 sectors of 512 bytes
C18_Witness ==
    /\ block.state = "ok"
    /\ block.file_size = <<524288, 0, 0>>
    /\ block.config_space = <<0, 4, 0, 0, 0, 0, 0, 0>>

\* C19: at most one thread at a time is inside the console, and a thread
\* inside it holds its lock from the start of the access to its end, be it a
\* vCPU thread doing port I/O or the event loop handing input to the console.
C19_ConsoleAccessExclusive ==
    /\ Cardinality(serial.inside) <= 1
    /\ serial.inside = serial.holder
    /\ \A i \in DOMAIN vcpu_pc : vcpu_pc[i] = "pio_access" <=> i \in serial.inside
    /\ pc = "dispatch_locked" <=> 0 \in serial.inside

\* a vCPU is inside the console while the event loop and the other vCPU wait
\* for its lock
C19_Witness ==
    /\ serial.inside = {1}
    /\ pc = "dispatch"
    /\ vcpu_pc = <<"pio_access", "pio_lock">>

CreateVcpusCalls == {i \in DOMAIN calls : calls[i] = "create_vcpus"}

C21_ConversionDropsCmdlineAndHimem ==
    converted_config # <<>> =>
        LET c == converted_config[1]
        IN  /\ c.memory_config.size_mib = vmm_config.memory_config.size_mib
            /\ c.vcpu_config.num = vmm_config.vcpu_config.num
            /\ c.kernel_config.path.inner = vmm_config.kernel_config.path
            /\ c.kernel_config.cmdline = KernelConfigDefault.cmdline
            /\ c.kernel_config.himem_start = KernelConfigDefault.himem_start

\* a record with a command line and a himem_start of its own was converted
C21_Witness ==
    /\ converted_config # <<>>
    /\ vmm_config.kernel_config.cmdline = "console=ttyS0"
    /\ vmm_config.kernel_config.himem_start = <<0, 2, 0>>
    /\ vmm_config.kernel_config.path = "/boot/vmlinux-hello"
    /\ vmm_config.memory_config.size_mib = <<1024, 0>>
    /\ vmm_config.vcpu_config.num = 1
    /\ converted_config[1].kernel_config.cmdline # "console=ttyS0"
    /\ converted_config[1].kernel_config.himem_start # <<0, 2, 0>>

====
